---------------------------- MODULE Spec2Model ----------------------------
(***************************************************************************)
(* Interrupt ownership and configuration of the MCAN driver                *)
(* (mcan/src/interrupt.rs).                                                *)
(*                                                                         *)
(* A 32-bit register value or InterruptSet is modelled as the set of its   *)
(* 1-bit positions, so that  a & b  is  a \cap b,  a | b  is  a \cup b,    *)
(* a & !b  is  a \ b  and  a ^ b  is the symmetric difference.  The        *)
(* register is scaled down: NumInterrupts valid positions (30 in the       *)
(* code) followed by the two reserved positions (30 and 31 in the code).   *)
(***************************************************************************)
EXTENDS Naturals, FiniteSets, Sequences, Bags, TLC

\* Number of interrupt bit positions of the scaled register (30 in the code).
NumInterrupts == 2

\* Largest number of OwnedInterruptSet values alive at the same time.
MaxTokens == 2

\* const RESERVED_BITS: u32 = 0x3fff_ffff: the positions a token may own.
RESERVED_BITS == 0 .. (NumInterrupts - 1)

\* All positions of a register: the valid ones and the two reserved ones.
RegBits == 0 .. (NumInterrupts + 1)

\* enum InterruptLine
InterruptLine == {"Line0", "Line1"}

\* The state markers of interrupt::state and the two capability groups.
State == {"Disabled", "EnabledLine0", "EnabledLine1", "Dynamic"}
Static == {"Disabled", "EnabledLine0", "EnabledLine1"}
MaybeEnabled == {"Dynamic", "EnabledLine0", "EnabledLine1"}

\* Symmetric difference: the ^ of two bit masks.
Xor(a, b) == (a \ b) \cup (b \ a)

VARIABLES
    tokens,   \* bag of the live OwnedInterruptSet values [mask, state]
    ir,       \* pending-flags register IR (write-one-to-clear)
    ie,       \* flag-enable register IE
    ils,      \* line-select register ILS (bit set: routed to line 1)
    ile,      \* line-enable register ILE: the lines whose EINTn bit is set
    last,     \* the last call: its operation, receiver, argument and result
    ctx,      \* the execution contexts of the interleaved flag accesses
    it,       \* an Iter over an InterruptSet and what was drawn from it
    overlap,  \* two controller calls have been in progress at the same time
    rx        \* the dedicated receive buffers, NDAT1, NDAT2 and the last call

vars == <<tokens, ir, ie, ils, ile, last, ctx, it, overlap, rx>>

\* The execution contexts that may hold tokens and run concurrently.
Contexts == {"main", "handler"}

\* OwnedInterruptSet::new: a token is its InterruptSet and its state marker.
OwnedInterruptSet(interrupts, state) == [mask |-> interrupts, state |-> state]

\* The absence of a token (no value returned, no receiver).
NoToken == [mask |-> {}, state |-> "None"]

\* OwnedInterruptSet::empty
empty(state) == OwnedInterruptSet({}, state)

-----------------------------------------------------------------------------
(* OwnedInterruptSet: ownership algebra                                    *)

\* Mutant of split_leniently: self keeps the subset, the rest is moved out.
split_leniently_inverted(self, subset) ==
    [self |-> [self EXCEPT !.mask = self.mask \cap subset],
     out  |-> OwnedInterruptSet(self.mask \ subset, self.state)]

\* Mutant of split_leniently: the bits moved out are not removed from self.
split_leniently_keeps(self, subset) ==
    [self |-> self,
     out  |-> OwnedInterruptSet(self.mask \cap subset, self.state)]

\* split_leniently: self keeps  self & !subset,  the result is  self & subset.
split_leniently(self, subset) ==
    LET remaining == self.mask \ subset
        split_out == self.mask \cap subset
    IN  [self |-> [self EXCEPT !.mask = remaining],
         out  |-> OwnedInterruptSet(split_out, self.state)]

\* Mutant of split: the operands of the containment test are exchanged
\* (self & !subset instead of !self & subset).
split_swapped_test(self, subset) ==
    LET missing == self.mask \ subset
    IN  IF missing # {}
        THEN [ok |-> FALSE, err |-> missing, self |-> self, out |-> NoToken]
        ELSE [ok |-> TRUE, err |-> {}] @@ split_leniently(self, subset)

\* Mutant of split: the error carries the whole request, not the missing bits.
split_err_request(self, subset) ==
    LET missing == subset \ self.mask
    IN  IF missing # {}
        THEN [ok |-> FALSE, err |-> subset, self |-> self, out |-> NoToken]
        ELSE [ok |-> TRUE, err |-> {}] @@ split_leniently(self, subset)

\* split: Err(MaskError(!self & subset)) when that is not 0, else split_leniently.
split(self, subset) ==
    LET missing == subset \ self.mask
    IN  IF missing # {}
        THEN [ok |-> FALSE, err |-> missing, self |-> self, out |-> NoToken]
        ELSE [ok |-> TRUE, err |-> {}] @@ split_leniently(self, subset)

\* Mutant of join: the mask of other is assigned, not or-ed.
join_overwrite(self, other) == [self EXCEPT !.mask = other.mask]

\* join: self.0 .0 |= other.0 .0  (the debug_assert is JoinAssertion below).
join(self, other) == [self EXCEPT !.mask = self.mask \cup other.mask]

\* The debug_assert of join: the two masks share no bit.
JoinAssertion(self, other) == self.mask \cap other.mask = {}

\* convert: the same bits under another state marker.
convert(self, NewState) == OwnedInterruptSet(self.mask, NewState)

-----------------------------------------------------------------------------
(* InterruptSet: iteration and collection                                  *)

\* The largest value of the u8 field Iter::index.
U8_MAX == 255

\* An Interrupt is the enum variant with discriminant n.
Interrupt(n) == [irq |-> n]

\* From<Interrupt> for u32:  1 << x as u32
u32_from(x) == {x.irq}

\* Mutant of try_from: the two reserved positions are accepted as well.
try_from_lenient(value) ==
    IF value < NumInterrupts + 2 THEN [ok |-> TRUE, int |-> Interrupt(value)]
                                 ELSE [ok |-> FALSE, int |-> Interrupt(0)]

\* TryFrom<u8> for Interrupt: the numbers below NumInterrupts (30 in the
\* code) name an interrupt, every other number is an error.
try_from(value) ==
    IF value < NumInterrupts THEN [ok |-> TRUE, int |-> Interrupt(value)]
                             ELSE [ok |-> FALSE, int |-> Interrupt(0)]

\* u8::saturating_add
saturating_add(x, y) == IF x + y > U8_MAX THEN U8_MAX ELSE x + y

\* InterruptSet::iter
iter(flags) == [flags |-> flags, index |-> 0]

\* Iterator::next of Iter: the index is advanced, None is returned when the
\* old index names no interrupt, the interrupt when its bit is set in flags,
\* and otherwise the result of the next call.
RECURSIVE next(_)
next(self) ==
    LET i   == self.index
        s   == [self EXCEPT !.index = saturating_add(i, 1)]
        int == try_from(i)
    IN  IF ~int.ok THEN [some |-> FALSE, item |-> Interrupt(0), self |-> s]
        ELSE IF s.flags \cap {i} # {}
             THEN [some |-> TRUE, item |-> int.int, self |-> s]
             ELSE next(s)

\* The items of an iterator up to its first None, as Iterator::count and
\* the for loop of from_iter draw them.
RECURSIVE collect(_)
collect(self) ==
    LET r == next(self)
    IN  IF r.some THEN <<r.item>> \o collect(r.self) ELSE <<>>

\* Mutant of from_iter_loop: the set is assigned, not or-ed.
RECURSIVE from_iter_assign(_, _)
from_iter_assign(set, items) ==
    IF items = <<>> THEN set
    ELSE from_iter_assign(u32_from(Head(items)), Tail(items))

\* The loop of from_iter:  set |= u32::from(int)  for every item.
RECURSIVE from_iter_loop(_, _)
from_iter_loop(set, items) ==
    IF items = <<>> THEN set
    ELSE from_iter_loop(set \cup u32_from(Head(items)), Tail(items))

\* FromIterator<Interrupt> for InterruptSet
from_iter(items) == from_iter_loop({}, items)

\* No iterator is in use.
NoIter == [iter |-> iter({}), items |-> <<>>, ended |-> FALSE,
           order |-> <<>>, set |-> {}, collected |-> FALSE]

-----------------------------------------------------------------------------
(* OwnedInterruptSet: access to the pending flags                          *)

\* What a read of a register returns: its bits, and on the reserved
\* positions whatever the hardware puts there (junk).
ReadReg(reg, junk) == reg \cup junk

\* The two reserved positions of a register (30 and 31 in the code).
ReservedPositions == RegBits \ RESERVED_BITS

\* Mutant of interrupt_flags: the value read is returned without the mask.
interrupt_flags_unmasked(self, irRead) == irRead

\* interrupt_flags: the value read from IR masked by the owned bits.
interrupt_flags(self, irRead) == irRead \cap self.mask

\* Mutant of clear_interrupts: the owned bits not in the argument are written.
clear_interrupts_inverted(self, interrupts) == self.mask \ interrupts

\* Mutant of clear_interrupts: the argument is written without the mask.
clear_interrupts_unmasked(self, interrupts) == interrupts

\* The value clear_interrupts writes to IR: interrupts.0 & self.0 .0
clear_interrupts(self, interrupts) == interrupts \cap self.mask

\* Mutant of WriteOneToClear: a written 0 clears the flag.
WriteZeroToClear(reg, written) == reg \cap written

\* IR is write-one-to-clear: a written 1 clears the flag, a written 0 leaves it.
WriteOneToClear(reg, written) == reg \ written

-----------------------------------------------------------------------------
(* InterruptConfiguration: the values written to ILE, ILS and IE           *)

\* enable_line: ILE.modify sets EINT0 or EINT1 and keeps the other bit.
enable_line(ileRead, line) == ileRead \cup {line}

\* Mutant of set_line: a plain write that ignores the value read.
set_line_overwrite(r, mask, line) ==
    IF line = "Line0" THEN {} ELSE mask

\* Mutant of set_line: the Line0 arm writes !mask instead of r & !mask.
set_line_complement(r, mask, line) ==
    IF line = "Line0" THEN RegBits \ mask ELSE r \cup mask

\* Mutant of set_line: the two arms of the match are exchanged.
set_line_swapped(r, mask, line) ==
    IF line = "Line0" THEN r \cup mask ELSE r \ mask

\* set_line: the value ILS.modify writes from the value r it read.
set_line(r, mask, line) ==
    IF line = "Line0" THEN r \ mask ELSE r \cup mask

\* Mutant of set_enabled: the bits of the mask are toggled.
set_enabled_toggle(r, mask, enabled) == Xor(r, mask)

\* Mutant of set_enabled: a plain write that ignores the value read.
set_enabled_overwrite(r, mask, enabled) ==
    IF enabled THEN mask ELSE {}

\* set_enabled: the value IE.modify writes from the value r it read.
set_enabled(r, mask, enabled) ==
    IF enabled THEN r \cup mask ELSE r \ mask

\* The value InterruptConfiguration::new writes to ILS: the reset value.
ILS_RESET == {}

-----------------------------------------------------------------------------
(* The record of the last call                                             *)

\* op: the operation; self: the receiver (or the token passed) before the
\* call; arg: the InterruptSet argument; ok: no error and no failed assertion;
\* out: the token returned; val: the InterruptSet returned (the flags, or the
\* payload of MaskError); now: the receiver after the call.
Call(op, self, arg, ok, out, val, now) ==
    [op |-> op, self |-> self, arg |-> arg, ok |-> ok,
     out |-> out, val |-> val, now |-> now]

\* Replace one copy of token t of the bag by the tokens of bag b.
Replace(t, b) == (tokens (-) SetToBag({t})) (+) b

TokenSet == BagToSet(tokens)

\* The contexts are idle and hold nothing while calls are serialised.
IdleCtx == [c \in Contexts |->
              [tok |-> NoToken, pc |-> "idle", op |-> "none", arg |-> {},
               interrupts |-> {}, out |-> NoToken]]


-----------------------------------------------------------------------------
(* InterruptConfiguration: the calls, on the registers as one record       *)

Regs == [ils |-> ils, ile |-> ile, ie |-> ie]

\* raw_enable: set_line (enable_line, then ILS), then set_enabled(true).
raw_enable(regs, interrupt, line, Out) ==
    LET dyn == convert(interrupt, "Dynamic")
        r1  == [regs EXCEPT !.ile = enable_line(@, line)]
        r2  == [r1 EXCEPT !.ils = set_line(@, dyn.mask, line)]
        r3  == [r2 EXCEPT !.ie = set_enabled(@, dyn.mask, TRUE)]
    IN  [regs |-> r3, out |-> convert(dyn, Out)]

enable_line_0(regs, interrupt) ==
    raw_enable(regs, interrupt, "Line0", "EnabledLine0")

enable_line_1(regs, interrupt) ==
    raw_enable(regs, interrupt, "Line1", "EnabledLine1")

\* Mutant of enable: the result keeps the marker of the line, without .into().
enable_keeps_static(regs, interrupt, line) ==
    IF line = "Line0" THEN enable_line_0(regs, interrupt)
                      ELSE enable_line_1(regs, interrupt)

\* enable: enable_line_0 or enable_line_1, then .into() the Dynamic state.
enable(regs, interrupt, line) ==
    LET r == IF line = "Line0" THEN enable_line_0(regs, interrupt)
                               ELSE enable_line_1(regs, interrupt)
    IN  [r EXCEPT !.out = convert(@, "Dynamic")]

\* Mutant of disable: the routing of the bits is reset to line 0 as well.
disable_resets_line(regs, interrupt) ==
    LET dyn == convert(interrupt, "Dynamic")
        r1  == [regs EXCEPT !.ils = set_line(@, dyn.mask, "Line0")]
    IN  [regs |-> [r1 EXCEPT !.ie = set_enabled(@, dyn.mask, FALSE)],
         out  |-> convert(dyn, "Disabled")]

\* disable: set_enabled(false) only; the token is re-tagged Disabled.
disable(regs, interrupt) ==
    LET dyn == convert(interrupt, "Dynamic")
    IN  [regs |-> [regs EXCEPT !.ie = set_enabled(@, dyn.mask, FALSE)],
         out  |-> convert(dyn, "Disabled")]

-----------------------------------------------------------------------------
(* RxDedicatedBuffer: the new-data registers and the buffer memory         *)

\* Number of bits of NDAT1 and of NDAT2 in the scaled model (32 in the code).
NdatBits == 2

\* Largest message identifier of the model.
MaxId == 1

\* The messages a buffer can hold: what matters of a message is its id().
Messages == [id : 0 .. MaxId]

\* No message: the value of a result that carries none.
NoMessage == [id |-> MaxId + 1]

\* The result of a call: Ok(message), Err(WouldBlock), Err(Other(OutOfBounds))
\* or the panic of an arithmetic overflow check.
Result(op, index, kind, message) ==
    [op |-> op, index |-> index, kind |-> kind, message |-> message]

\* No call on the dedicated receive buffers has returned.
NoResult == Result("none", 0, "None", NoMessage)

\* No dedicated receive buffer is in use.
NoRx == [ndat1 |-> {}, ndat2 |-> {}, memory |-> <<>>,
         overflow_checks |-> FALSE, res |-> NoResult]

\* slice::get: the element at a 0-based index, if the slice has one.
get(memory, index) ==
    IF index < Len(memory) THEN [some |-> TRUE, val |-> memory[index + 1]]
                           ELSE [some |-> FALSE, val |-> NoMessage]

\* has_new_data: bit index of NDAT1, bit index - 32 of NDAT2, else false.
has_new_data(self, index) ==
    IF index < NdatBits THEN index \in self.ndat1
    ELSE IF index < 2 * NdatBits THEN (index - NdatBits) \in self.ndat2
    ELSE FALSE

\* has_new_data_checked: Err(OutOfBounds) from index 64 on.
has_new_data_checked(self, index) ==
    IF index < 2 * NdatBits
    THEN [ok |-> TRUE, val |-> has_new_data(self, index)]
    ELSE [ok |-> FALSE, val |-> FALSE]

\* 1 << index  on a u32: a shift by the width or more is an arithmetic
\* overflow, which panics in a build with overflow checks and otherwise
\* shifts by index modulo the width.
shl1(index, overflow_checks) ==
    IF index < NdatBits THEN [panic |-> FALSE, bits |-> {index}]
    ELSE IF overflow_checks THEN [panic |-> TRUE, bits |-> {}]
    ELSE [panic |-> FALSE, bits |-> {index % NdatBits}]

\* mark_buffer_read: 1 << index is written to NDAT1 for index < 32 and to
\* NDAT2 for index < 64; a written 1 clears the new-data bit.
mark_buffer_read(self, index) ==
    LET w == shl1(index, self.overflow_checks)
    IN  IF index < NdatBits
        THEN [panic |-> FALSE,
              self |-> [self EXCEPT !.ndat1 = WriteOneToClear(@, w.bits)]]
        ELSE IF index < 2 * NdatBits
        THEN [panic |-> w.panic,
              self |-> IF w.panic THEN self
                       ELSE [self EXCEPT
                                !.ndat2 = WriteOneToClear(@, w.bits)]]
        ELSE [panic |-> FALSE, self |-> self]

\* peek: OutOfBounds from index 64 on or outside the memory, WouldBlock
\* without new data, else the message of the buffer.
peek(self, index) ==
    LET new == has_new_data_checked(self, index)
        m   == get(self.memory, index)
    IN  IF ~new.ok THEN [kind |-> "OutOfBounds", message |-> NoMessage]
        ELSE IF ~new.val THEN [kind |-> "WouldBlock", message |-> NoMessage]
        ELSE IF ~m.some THEN [kind |-> "OutOfBounds", message |-> NoMessage]
        ELSE [kind |-> "Ok", message |-> m.val]

\* receive: peek, and when it gave a message, mark_buffer_read.
receive(self, index) ==
    LET message == peek(self, index)
        marked  == mark_buffer_read(self, index)
    IN  IF message.kind # "Ok"
        THEN [self |-> self, kind |-> message.kind, message |-> NoMessage]
        ELSE IF marked.panic
        THEN [self |-> self, kind |-> "Panic", message |-> NoMessage]
        ELSE [self |-> marked.self, kind |-> "Ok",
              message |-> message.message]

\* The indices of the buffers of the memory that have new data.
Flagged(self) ==
    {i \in 0 .. (Len(self.memory) - 1) : has_new_data(self, i)}

\* min_by_key(|(_, m)| m.id()): the first of the elements of least id.
min_by_key(self, indices) ==
    CHOOSE i \in indices :
        \A j \in indices :
            \/ self.memory[i + 1].id < self.memory[j + 1].id
            \/ self.memory[i + 1].id = self.memory[j + 1].id /\ i <= j

\* receive_any: of the buffers with new data the one of least id is marked
\* as read and its message returned; WouldBlock when there is none.
receive_any(self) ==
    IF Flagged(self) = {}
    THEN [self |-> self, kind |-> "WouldBlock", message |-> NoMessage]
    ELSE LET i      == min_by_key(self, Flagged(self))
             marked == mark_buffer_read(self, i)
         IN  IF marked.panic
             THEN [self |-> self, kind |-> "Panic", message |-> NoMessage]
             ELSE [self |-> marked.self, kind |-> "Ok",
                   message |-> self.memory[i + 1]]

\* Iterator::next of RxDedicatedBuffer: receive_any().ok()
rx_next(self) ==
    LET r == receive_any(self)
    IN  [r EXCEPT !.kind = IF @ = "Ok" THEN "Some"
                           ELSE IF @ = "Panic" THEN "Panic" ELSE "None"]

\* The public calls of InterruptConfiguration that take a token.
ControllerOps == {"enable_line_0", "enable_line_1", "enable", "disable"}

\* The line and the state marker of the two statically typed enable calls.
LineOf(op) == IF op = "enable_line_0" THEN "Line0" ELSE "Line1"
MarkerOf(op) == IF op = "enable_line_0" THEN "EnabledLine0" ELSE "EnabledLine1"

-----------------------------------------------------------------------------
(* Serialised calls: every call runs to completion before the next         *)

\* InterruptConfiguration::new on hardware in any state: ILS is written with
\* its reset value, IE, ILE and IR are not written, and one token holding
\* RESERVED_BITS is returned tagged Disabled.
Init ==
    /\ ils = ILS_RESET
    /\ ie \in SUBSET RESERVED_BITS
    /\ ile \in SUBSET InterruptLine
    /\ ir \in SUBSET RESERVED_BITS
    /\ tokens = SetToBag({OwnedInterruptSet(RESERVED_BITS, "Disabled")})
    /\ last = Call("new", NoToken, {}, TRUE,
                   OwnedInterruptSet(RESERVED_BITS, "Disabled"), {}, NoToken)
    /\ ctx = IdleCtx
    /\ it = NoIter
    /\ overlap = FALSE
    /\ rx = NoRx

Split(t, subset) ==
    LET r == split(t, subset)
    IN  /\ r.ok => BagCardinality(tokens) < MaxTokens
        /\ tokens' = IF r.ok
                      THEN Replace(t, SetToBag({r.self}) (+) SetToBag({r.out}))
                      ELSE tokens
        /\ last' = Call("split", t, subset, r.ok, r.out, r.err, r.self)
        /\ UNCHANGED <<ir, ie, ils, ile, ctx, it, overlap, rx>>

Join(t, u) ==
    /\ t # u \/ CopiesIn(t, tokens) >= 2
    /\ t.state = u.state
    /\ tokens' = Replace(t, SetToBag({join(t, u)})) (-) SetToBag({u})
    /\ last' = Call("join", t, u.mask, JoinAssertion(t, u), NoToken, {},
                     join(t, u))
    /\ UNCHANGED <<ir, ie, ils, ile, ctx, it, overlap, rx>>

Empty(state) ==
    /\ BagCardinality(tokens) < MaxTokens
    /\ tokens' = tokens (+) SetToBag({empty(state)})
    /\ last' = Call("empty", NoToken, {}, TRUE, empty(state), {}, NoToken)
    /\ UNCHANGED <<ir, ie, ils, ile, ctx, it, overlap, rx>>

SplitFlagged(t) ==
    LET r == split_leniently(t, interrupt_flags(t, ir))
    IN  /\ t.state \in MaybeEnabled
        /\ BagCardinality(tokens) < MaxTokens
        /\ tokens' = Replace(t, SetToBag({r.self}) (+) SetToBag({r.out}))
        /\ last' = Call("split_flagged", t, {}, TRUE, r.out, {}, r.self)
        /\ UNCHANGED <<ir, ie, ils, ile, ctx, it, overlap, rx>>

InterruptFlags(t) ==
    /\ t.state \in MaybeEnabled
    /\ last' = Call("interrupt_flags", t, {}, TRUE, NoToken,
                     interrupt_flags(t, ir), t)
    /\ UNCHANGED <<tokens, ir, ie, ils, ile, ctx, it, overlap, rx>>

ClearInterrupts(t, interrupts) ==
    /\ t.state \in MaybeEnabled
    /\ ir' = WriteOneToClear(ir, clear_interrupts(t, interrupts))
    /\ last' = Call("clear_interrupts", t, interrupts, TRUE, NoToken, {}, t)
    /\ UNCHANGED <<tokens, ie, ils, ile, ctx, it, overlap, rx>>

\* iter_flagged: read the flags, clear them, iterate over what was read.
IterFlagged(t) ==
    LET interrupts == interrupt_flags(t, ir)
    IN  /\ t.state \in MaybeEnabled
        /\ ir' = WriteOneToClear(ir, clear_interrupts(t, interrupts))
        /\ last' = Call("iter_flagged", t, {}, TRUE, NoToken, interrupts, t)
        /\ UNCHANGED <<tokens, ie, ils, ile, ctx, it, overlap, rx>>

\* A controller call: the token is moved in and the result moved out.
Controller(op, t, arg, r) ==
    /\ ils' = r.regs.ils
    /\ ile' = r.regs.ile
    /\ ie' = r.regs.ie
    /\ tokens' = Replace(t, SetToBag({r.out}))
    /\ last' = Call(op, t, arg, TRUE, r.out, {}, NoToken)
    /\ UNCHANGED <<ir, ctx, it, overlap, rx>>

EnableLine0(t) == Controller("enable_line_0", t, {}, enable_line_0(Regs, t))

EnableLine1(t) == Controller("enable_line_1", t, {}, enable_line_1(Regs, t))

Enable(t, line) == Controller("enable", t, {line}, enable(Regs, t, line))

Disable(t) == Controller("disable", t, {}, disable(Regs, t))

\* From<OwnedInterruptSet<Id, State: Static>> for OwnedInterruptSet<Id>:
\* a token of a statically known state is converted to the Dynamic state.
IntoDynamic(t) ==
    /\ t.state \in Static
    /\ tokens' = Replace(t, SetToBag({convert(t, "Dynamic")}))
    /\ last' = Call("into", t, {}, TRUE, convert(t, "Dynamic"), {}, NoToken)
    /\ UNCHANGED <<ir, ie, ils, ile, ctx, it, overlap, rx>>

\* The peripheral raises the pending flag of interrupt b.
HwRaise(b) ==
    /\ b \notin ir
    /\ ir' = ir \cup {b}
    /\ last' = Call("hw", NoToken, {b}, TRUE, NoToken, {}, NoToken)
    /\ UNCHANGED <<tokens, ie, ils, ile, ctx, it, overlap, rx>>

Next ==
    \/ \E t \in TokenSet, subset \in SUBSET RegBits : Split(t, subset)
    \/ \E t \in TokenSet, u \in TokenSet : Join(t, u)
    \/ \E state \in State : Empty(state)
    \/ \E t \in TokenSet : SplitFlagged(t)
    \/ \E t \in TokenSet : InterruptFlags(t)
    \/ \E t \in TokenSet, interrupts \in SUBSET RegBits :
           ClearInterrupts(t, interrupts)
    \/ \E t \in TokenSet : IterFlagged(t)
    \/ \E t \in TokenSet : EnableLine0(t)
    \/ \E t \in TokenSet : EnableLine1(t)
    \/ \E t \in TokenSet, line \in InterruptLine : Enable(t, line)
    \/ \E t \in TokenSet : Disable(t)
    \/ \E t \in TokenSet : IntoDynamic(t)
    \/ \E b \in RESERVED_BITS : HwRaise(b)

Spec == Init /\ [][Next]_vars

-----------------------------------------------------------------------------
(* Interleaved flag accesses: two contexts holding disjoint tokens run      *)
(* interrupt_flags, clear_interrupts, iter_flagged and split_flagged, one   *)
(* access to IR per step, with no lock                                      *)

FlagOps == {"interrupt_flags", "clear_interrupts", "iter_flagged",
            "split_flagged"}

\* The contexts hold disjoint tokens of a possibly delivering state; the
\* configuration registers are not touched by the flag accesses.
ConcInit ==
    /\ \E m \in SUBSET RESERVED_BITS, h \in SUBSET RESERVED_BITS,
          sm \in MaybeEnabled, sh \in MaybeEnabled :
          /\ m \cap h = {}
          /\ ctx = [IdleCtx EXCEPT
                       !["main"].tok = OwnedInterruptSet(m, sm),
                       !["handler"].tok = OwnedInterruptSet(h, sh)]
    /\ ir \in SUBSET RESERVED_BITS
    /\ ie = {}
    /\ ils = ILS_RESET
    /\ ile = {}
    /\ tokens = EmptyBag
    /\ last = Call("new", NoToken, {}, TRUE, NoToken, {}, NoToken)
    /\ it = NoIter
    /\ overlap = FALSE
    /\ rx = NoRx

\* Context c calls op on its token.  clear_interrupts masks its argument and
\* goes on to its write; the other three start with interrupt_flags.
\* split_flagged needs room for the token it returns.
Invoke(c, op, interrupts) ==
    /\ ctx[c].pc = "idle"
    /\ op = "split_flagged" => ctx[c].out = NoToken
    /\ op # "clear_interrupts" => interrupts = {}
    /\ ctx' = [ctx EXCEPT
                  ![c].op = op,
                  ![c].arg = clear_interrupts(ctx[c].tok, interrupts),
                  ![c].interrupts = {},
                  ![c].pc = IF op = "clear_interrupts" THEN "write"
                                                       ELSE "read"]
    /\ UNCHANGED <<tokens, ir, ie, ils, ile, last, it, overlap, rx>>

\* The read of IR in interrupt_flags.  interrupt_flags returns the masked
\* value; iter_flagged passes it to clear_interrupts, which masks it and goes
\* on to its write; split_flagged splits it out and returns.
ReadIRValue(c, irRead) ==
    LET interrupts == interrupt_flags(ctx[c].tok, irRead)
        r == split_leniently(ctx[c].tok, interrupts)
    IN  /\ ctx[c].pc = "read"
        /\ ctx' = [ctx EXCEPT
                      ![c].interrupts = interrupts,
                      ![c].arg = IF ctx[c].op = "iter_flagged"
                                 THEN clear_interrupts(ctx[c].tok, interrupts)
                                 ELSE @,
                      ![c].pc = IF ctx[c].op = "iter_flagged"
                                THEN "write" ELSE "idle",
                      ![c].op = IF ctx[c].op = "iter_flagged"
                                THEN @ ELSE "none",
                      ![c].tok = IF ctx[c].op = "split_flagged"
                                 THEN r.self ELSE @,
                      ![c].out = IF ctx[c].op = "split_flagged"
                                 THEN r.out ELSE @]
        /\ UNCHANGED <<tokens, ir, ie, ils, ile, last, it, overlap, rx>>

\* The read of IR on hardware that reads the reserved positions as zero.
ReadIR(c) == ReadIRValue(c, ReadReg(ir, {}))

\* The write of the masked value to IR in clear_interrupts, and the return.
WriteIR(c) ==
    /\ ctx[c].pc = "write"
    /\ ir' = WriteOneToClear(ir, ctx[c].arg)
    /\ ctx' = [ctx EXCEPT ![c].pc = "idle", ![c].arg = {}, ![c].op = "none"]
    /\ UNCHANGED <<tokens, ie, ils, ile, last, it, overlap, rx>>

\* Context c joins the token split_flagged returned back into its token.
JoinOut(c) ==
    /\ ctx[c].pc = "idle"
    /\ ctx[c].out # NoToken
    /\ ctx' = [ctx EXCEPT ![c].tok = join(@, ctx[c].out),
                          ![c].out = NoToken]
    /\ UNCHANGED <<tokens, ir, ie, ils, ile, last, it, overlap, rx>>

\* The peripheral raises the pending flag of interrupt b at any moment.
ConcHwRaise(b) ==
    /\ b \notin ir
    /\ ir' = ir \cup {b}
    /\ UNCHANGED <<tokens, ie, ils, ile, last, ctx, it, overlap, rx>>

ConcNext ==
    \/ \E c \in Contexts, op \in FlagOps, interrupts \in SUBSET RegBits :
           Invoke(c, op, interrupts)
    \/ \E c \in Contexts : ReadIR(c)
    \/ \E c \in Contexts : WriteIR(c)
    \/ \E c \in Contexts : JoinOut(c)
    \/ \E b \in RESERVED_BITS : ConcHwRaise(b)

ConcSpec == ConcInit /\ [][ConcNext]_vars

-----------------------------------------------------------------------------
(* Controller calls one register access per step: every modify is a read   *)
(* of the register followed by a write of the value computed from it       *)

\* The contexts with the state of a controller call: the marker the token
\* came with, the line, the value read by the modify in progress and the
\* value it is going to write.
CtlIdle == [c \in Contexts |->
              IdleCtx[c] @@ [from |-> "None", line |-> "Line0",
                             r |-> {}, w |-> {}]]

\* Mutant of StepsOf: raw_enable calls set_enabled before set_line.
StepsOf_enabled_first(op) ==
    IF op = "disable" THEN <<"ie_read", "ie_write">>
    ELSE <<"ie_read", "ie_write", "ile_read", "ile_write",
           "ils_read", "ils_write">>

\* The register accesses of a call in program order: disable is
\* set_enabled; raw_enable is set_line (enable_line, then the modify of ILS)
\* followed by set_enabled.
StepsOf(op) ==
    IF op = "disable" THEN <<"ie_read", "ie_write">>
    ELSE <<"ile_read", "ile_write", "ils_read", "ils_write",
           "ie_read", "ie_write">>

\* The access after access pc of op, "idle" after the last one.
NextPc(op, pc) ==
    LET steps == StepsOf(op)
        k     == CHOOSE j \in DOMAIN steps : steps[j] = pc
    IN  IF k = Len(steps) THEN "idle" ELSE steps[k + 1]

\* The marker of the token a call returns.
OutState(op) ==
    CASE op = "enable_line_0" -> "EnabledLine0"
      [] op = "enable_line_1" -> "EnabledLine1"
      [] op = "enable"        -> "Dynamic"
      [] op = "disable"       -> "Disabled"

\* The contexts after context c has done the access it is at, having read r
\* and computed w: it goes on to its next access, or the call returns the
\* token converted to its new marker.
Advance(c, r, w) ==
    LET pc == NextPc(ctx[c].op, ctx[c].pc)
    IN  IF pc = "idle"
        THEN [ctx EXCEPT ![c] = [CtlIdle[c] EXCEPT
                 !.tok = convert(ctx[c].tok, OutState(ctx[c].op)),
                 !.out = ctx[c].out]]
        ELSE [ctx EXCEPT ![c].pc = pc, ![c].r = r, ![c].w = w]

\* new() on hardware in any state, the token split between the contexts.
CtlInit ==
    /\ \E m \in SUBSET RESERVED_BITS, h \in SUBSET RESERVED_BITS :
          /\ m \cap h = {}
          /\ ctx = [CtlIdle EXCEPT
                       !["main"].tok = OwnedInterruptSet(m, "Disabled"),
                       !["handler"].tok = OwnedInterruptSet(h, "Disabled")]
    /\ ils = ILS_RESET
    /\ ie \in SUBSET RESERVED_BITS
    /\ ile \in SUBSET InterruptLine
    /\ ir = {}
    /\ tokens = EmptyBag
    /\ last = Call("new", NoToken, {}, TRUE, NoToken, {}, NoToken)
    /\ it = NoIter
    /\ overlap = FALSE
    /\ rx = NoRx

\* No other context is inside a call: the controller is used through
\* &mut self, one call at a time.
Serial(c) == \A d \in Contexts \ {c} : ctx[d].pc = "idle"

\* Context c passes its token to op; the token is converted to Dynamic for
\* the hardware calls.
CtlEnter(c, op, line) ==
    /\ ctx[c].pc = "idle"
    /\ op \in {"enable_line_0", "enable_line_1"} => line = LineOf(op)
    /\ op = "disable" => line = "Line0"
    /\ ctx' = [ctx EXCEPT ![c].op = op,
                          ![c].line = line,
                          ![c].from = ctx[c].tok.state,
                          ![c].tok = convert(@, "Dynamic"),
                          ![c].pc = StepsOf(op)[1]]

\* The entry of a call.
CtlInvoke(c, op, line) ==
    /\ CtlEnter(c, op, line)
    /\ UNCHANGED <<tokens, ir, ie, ils, ile, last, it, overlap, rx>>

\* The entry of a call that may begin while another context is inside one:
\* nothing in the controller keeps the two apart.
RaceInvoke(c, op, line) ==
    /\ CtlEnter(c, op, line)
    /\ overlap' = (overlap \/ ~Serial(c))
    /\ UNCHANGED <<tokens, ir, ie, ils, ile, last, it, rx>>

\* enable_line: the read of ILE.
ReadILE(c) ==
    /\ ctx[c].pc = "ile_read"
    /\ ctx' = Advance(c, ile, enable_line(ile, ctx[c].line))
    /\ UNCHANGED <<tokens, ir, ie, ils, ile, last, it, overlap, rx>>

\* enable_line: the write of ILE.
WriteILE(c) ==
    /\ ctx[c].pc = "ile_write"
    /\ ile' = ctx[c].w
    /\ ctx' = Advance(c, {}, {})
    /\ UNCHANGED <<tokens, ir, ie, ils, last, it, overlap, rx>>

\* set_line: the read of ILS.
ReadILS(c, junk) ==
    LET r == ReadReg(ils, junk)
    IN  /\ ctx[c].pc = "ils_read"
        /\ ctx' = Advance(c, r, set_line(r, ctx[c].tok.mask, ctx[c].line))
        /\ UNCHANGED <<tokens, ir, ie, ils, ile, last, it, overlap, rx>>

\* set_line: the write of ILS.
WriteILS(c) ==
    /\ ctx[c].pc = "ils_write"
    /\ ils' = ctx[c].w
    /\ ctx' = Advance(c, {}, {})
    /\ UNCHANGED <<tokens, ir, ie, ile, last, it, overlap, rx>>

\* set_enabled: the read of IE.
ReadIE(c, junk) ==
    LET r == ReadReg(ie, junk)
    IN  /\ ctx[c].pc = "ie_read"
        /\ ctx' = Advance(c, r, set_enabled(r, ctx[c].tok.mask,
                                            ctx[c].op # "disable"))
        /\ UNCHANGED <<tokens, ir, ie, ils, ile, last, it, overlap, rx>>

\* set_enabled: the write of IE.
WriteIE(c) ==
    /\ ctx[c].pc = "ie_write"
    /\ ie' = ctx[c].w
    /\ ctx' = Advance(c, {}, {})
    /\ UNCHANGED <<tokens, ir, ils, ile, last, it, overlap, rx>>

\* A call through the one InterruptConfiguration of the peripheral.
SerialInvoke(c, op, line) == Serial(c) /\ CtlInvoke(c, op, line)

\* The hardware reads the reserved positions as zero.
CtlNext ==
    \/ \E c \in Contexts, op \in ControllerOps, line \in InterruptLine :
           SerialInvoke(c, op, line)
    \/ \E c \in Contexts : ReadILE(c)
    \/ \E c \in Contexts : WriteILE(c)
    \/ \E c \in Contexts : ReadILS(c, {})
    \/ \E c \in Contexts : WriteILS(c)
    \/ \E c \in Contexts : ReadIE(c, {})
    \/ \E c \in Contexts : WriteIE(c)

CtlSpec == CtlInit /\ [][CtlNext]_vars

\* new() on hardware whose IE is at its reset value.
CtlInitReset == CtlInit /\ ie = {}

\* The same calls from new() on hardware whose IE is at its reset value.
CtlSpecReset == CtlInitReset /\ [][CtlNext]_vars

\* The calls of the two contexts interleaved at the register accesses.
RaceNext ==
    \/ \E c \in Contexts, op \in ControllerOps, line \in InterruptLine :
           RaceInvoke(c, op, line)
    \/ \E c \in Contexts : ReadILE(c)
    \/ \E c \in Contexts : WriteILE(c)
    \/ \E c \in Contexts : ReadILS(c, {})
    \/ \E c \in Contexts : WriteILS(c)
    \/ \E c \in Contexts : ReadIE(c, {})
    \/ \E c \in Contexts : WriteIE(c)

RaceSpec == CtlInitReset /\ [][RaceNext]_vars

-----------------------------------------------------------------------------
(* The calls of one context on hardware that returns anything on the       *)
(* reserved positions of IR, ILS and IE when they are read                 *)

\* The context whose calls are followed; the other one keeps its token.
Caller == "main"

\* A flag access of the caller; its token is in a possibly delivering state.
FlagInvoke(op, interrupts) ==
    /\ ctx[Caller].tok.state \in MaybeEnabled
    /\ Invoke(Caller, op, interrupts)

\* The read of IR with anything on the reserved positions.
ReadIRJunk(junk) == ReadIRValue(Caller, ReadReg(ir, junk))

\* The caller joins the token of split_flagged back: both have one state.
JoinBack ==
    /\ ctx[Caller].out.state = ctx[Caller].tok.state
    /\ JoinOut(Caller)

ResNext ==
    \/ \E op \in ControllerOps, line \in InterruptLine :
           CtlInvoke(Caller, op, line)
    \/ ReadILE(Caller)
    \/ WriteILE(Caller)
    \/ \E junk \in SUBSET ReservedPositions : ReadILS(Caller, junk)
    \/ WriteILS(Caller)
    \/ \E junk \in SUBSET ReservedPositions : ReadIE(Caller, junk)
    \/ WriteIE(Caller)
    \/ \E op \in FlagOps, interrupts \in SUBSET RegBits :
           FlagInvoke(op, interrupts)
    \/ \E junk \in SUBSET ReservedPositions : ReadIRJunk(junk)
    \/ WriteIR(Caller)
    \/ JoinBack
    \/ \E b \in RESERVED_BITS : ConcHwRaise(b)

\* new() on hardware out of reset, the token split between the contexts.
ResInit == CtlInit /\ ie = {} /\ ile = {}

ResSpec == ResInit /\ [][ResNext]_vars

-----------------------------------------------------------------------------
(* The dedicated receive buffers: calls run to completion, and the         *)
(* peripheral stores messages between them                                 *)

\* The longest buffer memory: one element more than NDAT1 and NDAT2 cover.
MaxMemLen == 2 * NdatBits + 1

\* RxDedicatedBuffer::new over a memory of any length and content, in a
\* build with or without overflow checks; no buffer has new data.
RxInit ==
    /\ \E n \in 0 .. MaxMemLen, overflow_checks \in BOOLEAN :
          \E memory \in [1 .. n -> Messages] :
              rx = [NoRx EXCEPT !.memory = memory,
                                !.overflow_checks = overflow_checks]
    /\ tokens = EmptyBag
    /\ ir = {}
    /\ ie = {}
    /\ ils = ILS_RESET
    /\ ile = {}
    /\ last = Call("new", NoToken, {}, TRUE, NoToken, {}, NoToken)
    /\ ctx = IdleCtx
    /\ it = NoIter
    /\ overlap = FALSE

\* A call on the buffers with result r.
RxCall(op, index, r) ==
    /\ rx' = [r.self EXCEPT !.res = Result(op, index, r.kind, r.message)]
    /\ UNCHANGED <<tokens, ir, ie, ils, ile, last, ctx, it, overlap>>

Receive(index) == RxCall("receive", index, receive(rx, index))

ReceiveAny == RxCall("receive_any", 0, receive_any(rx))

RxNext == RxCall("next", 0, rx_next(rx))

\* The peripheral stores a message in a buffer of the memory that has no
\* new data and sets its new-data bit.
HwStore(index, message) ==
    /\ index < Len(rx.memory)
    /\ index < 2 * NdatBits
    /\ ~has_new_data(rx, index)
    /\ rx' = [rx EXCEPT
                 !.memory[index + 1] = message,
                 !.ndat1 = IF index < NdatBits THEN @ \cup {index} ELSE @,
                 !.ndat2 = IF index >= NdatBits THEN @ \cup {index - NdatBits}
                                               ELSE @,
                 !.res = Result("hw", index, "None", NoMessage)]
    /\ UNCHANGED <<tokens, ir, ie, ils, ile, last, ctx, it, overlap>>

RxSpecNext ==
    \/ \E index \in 0 .. (2 * NdatBits + 1) : Receive(index)
    \/ ReceiveAny
    \/ RxNext
    \/ \E index \in 0 .. (MaxMemLen - 1), message \in Messages :
           HwStore(index, message)

RxSpec == RxInit /\ [][RxSpecNext]_vars

\* The buffers in a build without overflow checks.
RxInitWrapping == RxInit /\ ~rx.overflow_checks

\* The same in a build without overflow checks.
RxSpecWrapping == RxInitWrapping /\ [][RxSpecNext]_vars

-----------------------------------------------------------------------------
(* Iteration over an InterruptSet of any 32-bit value, one call of next    *)
(* per step, and the collection of the items drawn into an InterruptSet    *)

\* InterruptSet(v).iter() for any value v, reserved bits included.
IterInit ==
    /\ it \in {[NoIter EXCEPT !.iter = iter(v)] : v \in SUBSET RegBits}
    /\ tokens = EmptyBag
    /\ ir = {}
    /\ ie = {}
    /\ ils = ILS_RESET
    /\ ile = {}
    /\ last = Call("new", NoToken, {}, TRUE, NoToken, {}, NoToken)
    /\ ctx = IdleCtx
    /\ overlap = FALSE
    /\ rx = NoRx

\* One call of next; it may be called again after it returned None.
IterNext ==
    LET r == next(it.iter)
    IN  /\ it' = [it EXCEPT !.iter = r.self,
                            !.items = IF r.some THEN Append(@, r.item) ELSE @,
                            !.ended = @ \/ ~r.some]
        /\ UNCHANGED <<tokens, ir, ie, ils, ile, last, ctx, overlap, rx>>

\* from_iter over the items drawn, handed over in the order p.
FromIter(p) ==
    LET order == [k \in DOMAIN it.items |-> it.items[p[k]]]
    IN  /\ it.ended
        /\ it' = [it EXCEPT !.order = order, !.set = from_iter(order),
                            !.collected = TRUE]
        /\ UNCHANGED <<tokens, ir, ie, ils, ile, last, ctx, overlap, rx>>

IterSpecNext ==
    \/ IterNext
    \/ \E p \in Permutations(DOMAIN it.items) : FromIter(p)

IterSpec == IterInit /\ [][IterSpecNext]_vars

-----------------------------------------------------------------------------
(* Properties of the serialised calls                                      *)

\* The tokens alive besides one copy of token t.
Others(bag, t) == BagToSet(bag (-) SetToBag({t}))

\* C1: the bitmasks of all live tokens are pairwise disjoint: no interrupt
\* bit is held by two tokens at the same time, after any sequence of split,
\* split_flagged, join, empty, enable_line_0, enable_line_1, enable and
\* disable calls from the single token of new().
C1_PairwiseDisjoint ==
    \A t \in TokenSet :
        \A u \in Others(tokens, t) : t.mask \cap u.mask = {}

\* Two non-empty tokens in different states are alive after a controller call.
C1_Witness ==
    /\ last.op = "enable_line_1"
    /\ \E t \in TokenSet, u \in TokenSet :
          /\ t.mask # {} /\ u.mask # {}
          /\ t.state = "EnabledLine1" /\ u.state = "Disabled"

\* C2: split(s) with s contained in the mask m succeeds, returns a token
\* holding exactly s in the state of the token split, leaves m XOR s in
\* self, remainder AND returned = 0 and remainder OR returned = m.
C2_SplitOfSubset ==
    (last.op = "split" /\ last.arg \subseteq last.self.mask) =>
        /\ last.ok
        /\ last.out = OwnedInterruptSet(last.arg, last.self.state)
        /\ last.now = OwnedInterruptSet(Xor(last.self.mask, last.arg),
                                        last.self.state)
        /\ last.now.mask \cap last.out.mask = {}
        /\ last.now.mask \cup last.out.mask = last.self.mask
        /\ last.now \in TokenSet
        /\ last.out \in Others(tokens, last.now)

\* A non-empty proper subset was split out of an enabled token.
C2_Witness ==
    /\ last.op = "split"
    /\ last.ok
    /\ last.arg # {}
    /\ last.arg # last.self.mask
    /\ last.self.state = "EnabledLine0"

\* C3: split(s) with a bit of s outside the mask m fails, the error carries
\* exactly s AND NOT m, the token still holds m, and no split is performed:
\* the live tokens are the ones alive before the call.
C3_SplitFailsClosed ==
    [][(last'.op = "split" /\ ~(last'.arg \subseteq last'.self.mask)) =>
          /\ ~last'.ok
          /\ last'.val = last'.arg \ last'.self.mask
          /\ last'.now = last'.self
          /\ last'.out = NoToken
          /\ last'.self \in BagToSet(tokens)
          /\ tokens' = tokens]_vars

\* A split was refused although some of the requested bits were owned.
C3_Witness ==
    /\ last.op = "split"
    /\ ~last.ok
    /\ last.arg \cap last.self.mask # {}
    /\ last.val # last.arg
    /\ last.val \cap RESERVED_BITS # {}

\* C4: clear_interrupts(mask) on a token owning m clears exactly the pending
\* flags of mask AND m; every pending flag outside m, in particular those of
\* other live tokens, keeps its value.
C4_ClearOnlyOwned ==
    [][last'.op = "clear_interrupts" =>
          LET m == last'.self.mask
              w == last'.arg \cap m
          IN  /\ ir' = ir \ w
              /\ \A b \in w : b \notin ir'
              /\ \A b \in RegBits \ m : (b \in ir') = (b \in ir)
              /\ \A u \in Others(tokens, last'.self) :
                    u.mask \cap ir' = u.mask \cap ir]_vars

\* A clear whose mask named a pending flag of another token, which stays
\* pending, while an owned flag was cleared.
C4_Witness ==
    /\ last.op = "clear_interrupts"
    /\ last.arg \cap last.self.mask # {}
    /\ \E u \in Others(tokens, last.self) :
          u.mask \cap last.arg \cap ir # {}

\* C5: interrupt_flags() on a token owning m returns IR AND m and changes no
\* register and no token; so it never contains a bit of another live token,
\* whatever is pending for that token and also after that token was disabled.
C5_FlagsMasked ==
    [][last'.op = "interrupt_flags" =>
          /\ last'.val = ir \cap last'.self.mask
          /\ UNCHANGED <<tokens, ir, ie, ils, ile>>
          /\ \A u \in Others(tokens, last'.self) :
                last'.val \cap u.mask = {}]_vars

\* Flags were read through one token while a flag of another token, which
\* was enabled on line 1 and then disabled, is pending.
C5_Witness ==
    /\ last.op = "interrupt_flags"
    /\ last.val # {}
    /\ \E t \in Others(tokens, last.self) :
          /\ t.state = "Disabled"
          /\ t.mask \cap ils # {}
          /\ t.mask \cap ie = {}
          /\ t.mask \cap ir # {}

\* C7: after enable_line_0 (enable_line_1) of a token owning m in any state,
\* every bit of m is 0 (1) in ILS, the line-enable bit of line 0 (1) is set,
\* every bit of m is set in IE and the token returned holds exactly m tagged
\* EnabledOnLine0 (EnabledOnLine1).
C7_EnableLine ==
    last.op \in {"enable_line_0", "enable_line_1"} =>
        LET m == last.self.mask
        IN  /\ IF last.op = "enable_line_0" THEN m \cap ils = {}
                                            ELSE m \subseteq ils
            /\ LineOf(last.op) \in ile
            /\ m \subseteq ie
            /\ last.out = OwnedInterruptSet(m, MarkerOf(last.op))
            /\ last.out \in TokenSet

\* A token enabled on line 0 was moved to line 1 beside another token whose
\* bits are routed to line 0.
C7_Witness ==
    /\ last.op = "enable_line_1"
    /\ last.self.state = "EnabledLine0"
    /\ last.self.mask # {}
    /\ \E u \in Others(tokens, last.out) : u.mask # {} /\ u.mask \cap ils = {}

\* C8: every register update of enable_line_0, enable_line_1, enable and
\* disable on a token owning m leaves every bit outside m of ILS and of IE
\* as it was.
C8_MaskedUpdate ==
    [][last'.op \in ControllerOps =>
          \A b \in RegBits \ last'.self.mask :
              /\ (b \in ils') = (b \in ils)
              /\ (b \in ie') = (b \in ie)]_vars

\* A controller call changed IE beside another token enabled on line 1.
C8_Witness ==
    /\ last.op \in ControllerOps
    /\ last.self.mask # {}
    /\ last.self.mask \cap ie = {}
    /\ \E u \in Others(tokens, last.out) :
          /\ u.mask # {}
          /\ u.mask \subseteq ie
          /\ u.mask \subseteq ils

\* C9: disable of a token owning m in any state clears exactly the bits of
\* m in IE, leaves ILS unchanged (the bits of m included) and returns a token
\* holding exactly m tagged Disabled.
C9_Disable ==
    [][last'.op = "disable" =>
          /\ ie' = ie \ last'.self.mask
          /\ ils' = ils
          /\ last'.out = OwnedInterruptSet(last'.self.mask, "Disabled")
          /\ last'.out \in BagToSet(tokens')]_vars

\* A token enabled on line 1 was disabled and its bits stay routed to line 1.
C9_Witness ==
    /\ last.op = "disable"
    /\ last.self.state = "EnabledLine1"
    /\ last.self.mask # {}
    /\ last.self.mask \subseteq ils
    /\ last.self.mask \cap ie = {}

\* C10: the state marker of every live token with a statically known state
\* matches the hardware: every bit of a Disabled token is clear in IE, every
\* bit of an EnabledOnLine0 token is set in IE and 0 in ILS, every bit of an
\* EnabledOnLine1 token is set in IE and 1 in ILS.
C10_MarkerMatchesHardware ==
    \A t \in TokenSet :
        /\ t.state = "Disabled" => t.mask \cap ie = {}
        /\ t.state = "EnabledLine0" =>
              (t.mask \subseteq ie /\ t.mask \cap ils = {})
        /\ t.state = "EnabledLine1" =>
              (t.mask \subseteq ie /\ t.mask \subseteq ils)

\* The operations that hand tokens on under the marker they came with.
MarkerKeepingOps == {"split", "split_flagged", "join"}

\* The tokens a step adds to the live ones.
NewTokens == BagToSet(tokens' (-) tokens)

\* The marker changes the claim lists: enable_line_0 and enable_line_1 from a
\* statically known state, enable and disable from any state.
ListedTransition(op, from, to) ==
    \/ op = "enable_line_0" /\ from \in Static /\ to = "EnabledLine0"
    \/ op = "enable_line_1" /\ from \in Static /\ to = "EnabledLine1"
    \/ op = "enable" /\ to = "Dynamic"
    \/ op = "disable" /\ to = "Disabled"

\* The marker changes of the code: the enable calls accept a token of any
\* state, Dynamic included, and .into() widens a static marker to Dynamic.
PublicTransition(op, from, to) ==
    \/ op = "enable_line_0" /\ from \in State /\ to = "EnabledLine0"
    \/ op = "enable_line_1" /\ from \in State /\ to = "EnabledLine1"
    \/ op = "enable" /\ from \in State /\ to = "Dynamic"
    \/ op = "disable" /\ from \in State /\ to = "Disabled"
    \/ op = "into" /\ from \in Static /\ to = "Dynamic"

\* C11 as stated: every token a call produces carries the marker of the
\* token it was made from, unless the call is one of the four listed
\* transitions (enable_line_0 and enable_line_1 from Disabled, EnabledOnLine0
\* or EnabledOnLine1; enable and disable from any state).
C11_ListedTransitionsOnly ==
    [][\A n \in NewTokens :
          IF last'.op = "empty" THEN n = empty(n.state)
          ELSE IF last'.op \in MarkerKeepingOps
               THEN n.state = last'.self.state
               ELSE ListedTransition(last'.op, last'.self.state, n.state)]_vars

\* C11: the state marker of a token changes only by enable_line_0 (any state,
\* Dynamic included, to EnabledOnLine0), enable_line_1 (any state to
\* EnabledOnLine1), enable (any state to Dynamic), disable (any state to
\* Disabled) and the conversion .into() (a statically known state to
\* Dynamic); split, split_flagged and join keep the marker and empty creates
\* a token that owns nothing.
C11_PublicTransitionsOnly ==
    [][\A n \in NewTokens :
          IF last'.op = "empty" THEN n = empty(n.state)
          ELSE IF last'.op \in MarkerKeepingOps
               THEN n.state = last'.self.state
               ELSE PublicTransition(last'.op, last'.self.state, n.state)]_vars

\* A non-empty Dynamic token was passed to enable_line_0 and came back
\* tagged EnabledLine0.
C11_Witness ==
    /\ last.op = "enable_line_0"
    /\ last.self.state = "Dynamic"
    /\ last.self.mask # {}
    /\ last.out.state = "EnabledLine0"
    /\ last.out \in TokenSet

\* C12: after InterruptConfiguration::new(), whatever the registers held
\* before, ILS routes every bit to line 0, no interrupt is enabled in IE, no
\* line is enabled in ILE, and the token returned holds exactly RESERVED_BITS
\* tagged Disabled.
C12_NewDisablesAll ==
    last.op = "new" =>
        /\ ils = {}
        /\ ie = {}
        /\ ile = {}
        /\ last.out = OwnedInterruptSet(RESERVED_BITS, "Disabled")
        /\ tokens = SetToBag({last.out})

\* The numbers of the interrupts an iterator over flags yields.
Yielded(flags) ==
    LET items == collect(iter(flags))
    IN  {items[k].irq : k \in DOMAIN items}

\* C15: iter_flagged() on a token owning m returns an iterator over exactly
\* the bits of m pending when it read IR and clears exactly those bits; an
\* interrupt_flags() on the same token that follows immediately, with no
\* hardware event in between, returns the empty set.
C15_IterFlaggedClearsWhatItReturns ==
    [][/\ last'.op = "iter_flagged" =>
             LET m == last'.self.mask
             IN  /\ Yielded(last'.val) = ir \cap m
                 /\ Len(collect(iter(last'.val))) = Cardinality(ir \cap m)
                 /\ ir' = ir \ Yielded(last'.val)
                 /\ interrupt_flags(last'.self, ir') = {}
                 /\ tokens' = tokens
       /\ (/\ last.op = "iter_flagged"
           /\ last'.op = "interrupt_flags"
           /\ last'.self = last.self) => last'.val = {}]_vars

\* iter_flagged returned and cleared a pending flag of its token while a flag
\* of another live token stays pending.
C15_Witness ==
    /\ last.op = "iter_flagged"
    /\ last.val # {}
    /\ last.self.mask \cap ir = {}
    /\ \E u \in Others(tokens, last.self) : u.mask \cap ir # {}

\* C17: join inverts split: for tokens a and b of the same state with
\* disjoint masks, a.join(b) leaves a holding a OR b, and splitting the mask
\* of a out of the joined token succeeds, returns a token holding exactly the
\* mask of a and leaves exactly the mask of b.
C17_JoinInvertsSplit ==
    /\ []((last.op = "join" /\ last.ok) =>
             LET r == split(last.now, last.self.mask)
             IN  /\ last.now = OwnedInterruptSet(last.self.mask \cup last.arg,
                                                 last.self.state)
                 /\ last.now \in TokenSet
                 /\ r.ok
                 /\ r.out = last.self
                 /\ r.self = OwnedInterruptSet(last.arg, last.self.state))
    /\ [][(/\ last.op = "join" /\ last.ok
            /\ last'.op = "split"
            /\ last'.self = last.now
            /\ last'.arg = last.self.mask) =>
               /\ last'.ok
               /\ last'.out = last.self
               /\ last'.now = OwnedInterruptSet(last.arg, last.self.state)
               /\ last'.out \in BagToSet(tokens')
               /\ last'.now \in BagToSet(tokens')]_vars

\* Two non-empty disjoint tokens enabled on line 1 were joined.
C17_Witness ==
    /\ last.op = "join"
    /\ last.ok
    /\ last.self.mask # {}
    /\ last.arg # {}
    /\ last.self.state = "EnabledLine1"
    /\ last.now.mask = RESERVED_BITS

\* C21: split_flagged() on a token owning m while IR holds p never fails,
\* returns a token holding exactly m AND p in the state of the token, leaves
\* self holding m AND NOT p, and clears no pending flag.
C21_SplitFlagged ==
    [][last'.op = "split_flagged" =>
          LET m == last'.self.mask
              p == ir
          IN  /\ last'.ok
              /\ last'.out = OwnedInterruptSet(m \cap p, last'.self.state)
              /\ last'.now = OwnedInterruptSet(m \ p, last'.self.state)
              /\ ir' = ir
              /\ last'.now \in BagToSet(tokens')
              /\ last'.out \in Others(tokens', last'.now)]_vars

\* split_flagged moved a pending bit out of a token that keeps another bit;
\* the flag moved out is still pending.
C21_Witness ==
    /\ last.op = "split_flagged"
    /\ last.out.mask # {}
    /\ last.now.mask # {}
    /\ last.out.mask \subseteq ir
    /\ last.self.state = "EnabledLine1"

-----------------------------------------------------------------------------
(* Properties of the controller calls, one register access per step        *)

\* Context c is inside the call op on a token that came tagged from.
Inside(c, op, from) == ctx[c].op = op /\ ctx[c].from = from

\* C13: when enable_line_0(t) is followed by enable_line_1(t) on the same
\* bits m, every bit of m stays set in IE at every step of the second call,
\* and when the call returns every bit of m is routed to line 1 in ILS (and
\* set in IE) and the token is tagged EnabledLine1.
C13_SwitchKeepsEnabled ==
    /\ [](\A c \in Contexts :
             Inside(c, "enable_line_1", "EnabledLine0") =>
                 ctx[c].tok.mask \subseteq ie)
    /\ [][\A c \in Contexts :
             (Inside(c, "enable_line_1", "EnabledLine0")
                  /\ ctx'[c].pc = "idle") =>
                 /\ ctx[c].tok.mask \subseteq ils'
                 /\ ctx[c].tok.mask \subseteq ie'
                 /\ ctx'[c].tok = OwnedInterruptSet(ctx[c].tok.mask,
                                                   "EnabledLine1")]_vars

\* main is inside enable_line_1 on a non-empty token that enable_line_0
\* returned: ILS routes its bits to line 1 already and IE is about to be
\* read, while the handler's bits are enabled on line 0.
C13_Witness ==
    /\ Inside("main", "enable_line_1", "EnabledLine0")
    /\ ctx["main"].pc = "ie_read"
    /\ ctx["main"].tok.mask # {}
    /\ ctx["main"].tok.mask \subseteq ils
    /\ ctx["handler"].tok = OwnedInterruptSet(ctx["handler"].tok.mask,
                                              "EnabledLine0")
    /\ ctx["handler"].tok.mask # {}

\* C14: at no step of enable_line_0 or enable_line_1 on a token that came
\* tagged Disabled is an owned bit set in IE while ILS routes it to the line
\* that was not requested (ILS is written before IE).
C14_NeverEnabledOnWrongLine ==
    \A c \in Contexts :
        (ctx[c].op \in {"enable_line_0", "enable_line_1"}
             /\ ctx[c].from = "Disabled") =>
            \A b \in ctx[c].tok.mask :
                b \in ie => ((b \in ils) <=> (ctx[c].line = "Line1"))

\* The line ILS routes interrupt b to.
RoutedTo(b) == IF b \in ils THEN "Line1" ELSE "Line0"

\* C23: from new() on hardware whose IE is zero, at every step of every
\* serialised sequence of controller calls, the steps between the register
\* accesses of one call included, every interrupt whose bit is set in IE is
\* routed by ILS to a line whose bit is set in ILE; and no step clears a bit
\* of ILE.
C23_EnabledOnEnabledLine ==
    /\ [](\A b \in ie : RoutedTo(b) \in ile)
    /\ [][ile \subseteq ile']_vars

\* main is between the read and the write of ILS in enable_line_1 on a
\* non-empty token enabled on line 0; both lines are enabled.
C23_Witness ==
    /\ Inside("main", "enable_line_1", "EnabledLine0")
    /\ ctx["main"].pc = "ils_write"
    /\ ctx["main"].tok.mask # {}
    /\ ctx["main"].tok.mask \subseteq ie
    /\ ctx["main"].tok.mask \cap ils = {}
    /\ ile = InterruptLine

\* The bits of the token of context c have in IE and ILS the values its
\* static marker stands for.
Matches(c) ==
    LET t == ctx[c].tok
    IN  /\ t.state = "Disabled" => t.mask \cap ie = {}
        /\ t.state = "EnabledLine0" =>
              (t.mask \subseteq ie /\ t.mask \cap ils = {})
        /\ t.state = "EnabledLine1" =>
              (t.mask \subseteq ie /\ t.mask \subseteq ils)

\* The call of context c returns in this step.
Returns(c) == ctx[c].pc # "idle" /\ ctx'[c].pc = "idle"

\* The values the call of context c is meant to leave in IE and ILS for the
\* bits of its token, in the state after the step.
UpdateInPlace(c) ==
    LET m == ctx[c].tok.mask
    IN  IF ctx[c].op = "disable" THEN m \cap ie' = {}
        ELSE /\ m \subseteq ie'
             /\ IF ctx[c].line = "Line1" THEN m \subseteq ils'
                                         ELSE m \cap ils' = {}

\* C22: the controller does not serialise its calls.  As long as no two
\* calls have been in progress at the same time, every call returns with the
\* bits of its token in IE and ILS as it set them, no step changes a bit of
\* the token of a context that is not inside a call, and the marker of
\* every such token matches the hardware; with calls on disjoint tokens
\* interleaved at the register accesses a state is reachable where it does
\* not (C22_Witness): an update was lost.
C22_NoLostUpdateWhenSerial ==
    /\ [](~overlap => \A c \in Contexts : ctx[c].pc = "idle" => Matches(c))
    /\ [][~overlap' =>
             \A c \in Contexts :
                 /\ Returns(c) => UpdateInPlace(c)
                 /\ (ctx[c].pc = "idle" /\ ctx'[c].pc = "idle") =>
                       /\ ctx[c].tok.mask \cap ie' = ctx[c].tok.mask \cap ie
                       /\ ctx[c].tok.mask \cap ils' =
                              ctx[c].tok.mask \cap ils]_vars

\* Both calls have returned, the tokens are disjoint, and the token of main
\* is tagged EnabledLine1 although one of its bits is not set in IE: the
\* write of IE by the handler's call, computed from a value read before
\* main's write, has undone main's update.
C22_Witness ==
    /\ overlap
    /\ \A c \in Contexts : ctx[c].pc = "idle"
    /\ ctx["main"].tok.mask \cap ctx["handler"].tok.mask = {}
    /\ ctx["main"].tok.state = "EnabledLine1"
    /\ ctx["main"].tok.mask \subseteq ils
    /\ ~(ctx["main"].tok.mask \subseteq ie)
    /\ ctx["handler"].tok.state = "EnabledLine0"
    /\ ctx["handler"].tok.mask # {}
    /\ Matches("handler")

-----------------------------------------------------------------------------
(* Properties of the dedicated receive buffers                             *)

\* The new-data bit of buffer i: bit i of NDAT1 below NdatBits (32), bit
\* i - NdatBits of NDAT2 from there to twice NdatBits (64).
NewData(r, i) ==
    \/ i < NdatBits /\ i \in r.ndat1
    \/ i >= NdatBits /\ i < 2 * NdatBits /\ (i - NdatBits) \in r.ndat2

\* The step clears the new-data bit of buffer i and changes no other bit.
ClearsOnly(i) ==
    /\ rx'.ndat1 = IF i < NdatBits THEN rx.ndat1 \ {i} ELSE rx.ndat1
    /\ rx'.ndat2 = IF i >= NdatBits THEN rx.ndat2 \ {i - NdatBits}
                                    ELSE rx.ndat2

\* The step changes no new-data bit.
NdatUnchanged == rx'.ndat1 = rx.ndat1 /\ rx'.ndat2 = rx.ndat2

\* C24: receive(index) returns OutOfBounds for index >= 64 and WouldBlock
\* for index < 64 whose new-data bit is clear, changing no new-data bit; for
\* an index below 64 within the memory whose new-data bit is set it returns
\* the message of that buffer and clears exactly the new-data bit of that
\* index (bit index of NDAT1 below 32, bit index - 32 of NDAT2 from 32 on).
C24_Receive ==
    [][rx'.res.op = "receive" =>
          LET i == rx'.res.index
          IN  /\ i >= 2 * NdatBits =>
                    rx'.res.kind = "OutOfBounds" /\ NdatUnchanged
              /\ (i < 2 * NdatBits /\ ~NewData(rx, i)) =>
                    rx'.res.kind = "WouldBlock" /\ NdatUnchanged
              /\ (i < 2 * NdatBits /\ i < Len(rx.memory) /\ NewData(rx, i)) =>
                    /\ rx'.res.kind = "Ok"
                    /\ rx'.res.message = rx.memory[i + 1]
                    /\ ClearsOnly(i)
              /\ rx'.memory = rx.memory]_vars

\* The buffers of the memory whose new-data bit is set.
Pending(r) == {i \in 0 .. (Len(r.memory) - 1) : NewData(r, i)}

\* C25: receive_any() returns WouldBlock, changing no new-data bit, exactly
\* when no buffer has its new-data bit set; otherwise it returns the message
\* of least identifier among the buffers whose new-data bit is set and marks
\* only that buffer as read, so that the buffers with new data become one
\* fewer with every call.
C25_ReceiveAny ==
    [][rx'.res.op = "receive_any" =>
          /\ (rx'.res.kind = "WouldBlock") <=> (Pending(rx) = {})
          /\ rx'.res.kind = "WouldBlock" => NdatUnchanged
          /\ Pending(rx) # {} =>
                /\ rx'.res.kind = "Ok"
                /\ \E i \in Pending(rx) :
                      /\ rx'.res.message = rx.memory[i + 1]
                      /\ \A j \in Pending(rx) :
                            rx.memory[i + 1].id <= rx.memory[j + 1].id
                      /\ ClearsOnly(i)
                      /\ Pending(rx') = Pending(rx) \ {i}
          /\ rx'.memory = rx.memory]_vars

-----------------------------------------------------------------------------
(* Properties of the iteration                                             *)

\* The numbers of the interrupts drawn so far.
Drawn == {it.items[k].irq : k \in DOMAIN it.items}

\* C18: for every value v, iterating InterruptSet(v) terminates and yields
\* each set bit of v AND RESERVED_BITS exactly once, in ascending order of bit
\* position, and nothing else (no reserved bit, nothing after the first
\* None); the number of items is the number of set bits of v AND
\* RESERVED_BITS.
C18_IterYieldsValidBits ==
    LET valid == it.iter.flags \cap RESERVED_BITS
    IN  /\ \A k \in DOMAIN it.items : it.items[k] = Interrupt(it.items[k].irq)
        /\ \A j \in DOMAIN it.items : \A k \in DOMAIN it.items :
               j < k => it.items[j].irq < it.items[k].irq
        /\ Drawn = {b \in valid : b < it.iter.index}
        /\ it.ended <=> it.iter.index > NumInterrupts
        /\ it.ended =>
               /\ Drawn = valid
               /\ Len(it.items) = Cardinality(valid)
               /\ it.items = collect(iter(it.iter.flags))

\* The iteration over a value with reserved bits set has ended after it
\* yielded every valid position.
C18_Witness ==
    /\ it.ended
    /\ it.iter.flags \ RESERVED_BITS # {}
    /\ Drawn = RESERVED_BITS
    /\ Len(it.items) = NumInterrupts

\* C19: collecting the items of iter(InterruptSet(v)) with from_iter gives
\* v AND RESERVED_BITS, in whatever order the items are or-ed.
C19_IterCollectRoundTrip ==
    it.collected => it.set = it.iter.flags \cap RESERVED_BITS

\* The items of a value with a reserved bit were collected in an order that
\* is not the order of the iteration.
C19_Witness ==
    /\ it.collected
    /\ it.order # it.items
    /\ it.iter.flags \ RESERVED_BITS # {}
    /\ it.set = RESERVED_BITS

-----------------------------------------------------------------------------
(* Properties of the interleaved flag accesses                             *)

\* The bits context c owns: its token and the token split_flagged gave it.
Owned(c) == ctx[c].tok.mask \cup ctx[c].out.mask

\* C6: with two contexts holding disjoint tokens and their accesses to IR
\* interleaved in any order without a lock, no context ever observes a flag
\* of the other context's token (in the flags read or in the token split
\* out), the tokens stay disjoint, and a pending flag owned by a context is
\* cleared only by a write of that context.
C6_NoCrossTalk ==
    /\ [](\A c \in Contexts : \A d \in Contexts \ {c} :
             /\ ctx[c].interrupts \cap Owned(d) = {}
             /\ Owned(c) \cap Owned(d) = {})
    /\ [][\A c \in Contexts : \A d \in Contexts \ {c} :
             (\E b \in Owned(d) : b \in ir /\ b \notin ir') =>
                 /\ ctx[d].pc = "write"
                 /\ ctx'[d].pc = "idle"
                 /\ ctx'[c] = ctx[c]]_vars

\* main is between the read and the clear of iter_flagged with a flag read,
\* while the handler has split out flags that are still pending.
C6_Witness ==
    /\ ctx["main"].op = "iter_flagged"
    /\ ctx["main"].pc = "write"
    /\ ctx["main"].interrupts # {}
    /\ ctx["handler"].pc = "idle"
    /\ ctx["handler"].out.mask # {}
    /\ ctx["handler"].out.mask \subseteq ir

\* Context c is at the write of iter_flagged and takes it in this step.
IterFlaggedWrites(c) ==
    /\ ctx[c].op = "iter_flagged"
    /\ ctx[c].pc = "write"
    /\ ctx'[c].pc = "idle"

\* The owned flags the peripheral raised after the read of iter_flagged.
RaisedSinceRead(c) == (ctx[c].tok.mask \cap ir) \ ctx[c].interrupts

\* C16 as stated: an owned flag the hardware sets between the read and the
\* write-one-to-clear of iter_flagged is cleared by the call although it was
\* not reported; no bit of another token is cleared.
C16_LateFlagCleared ==
    [][\A c \in Contexts : IterFlaggedWrites(c) =>
          /\ \A b \in RaisedSinceRead(c) : b \notin ir'
          /\ \A b \in RegBits \ ctx[c].tok.mask : (b \in ir') = (b \in ir)]_vars

\* C16: an owned flag the hardware sets between the read and the
\* write-one-to-clear of iter_flagged is not in the value read, is not
\* written and stays pending after the call; the call clears exactly the
\* flags it read and reports, and in no interleaving a bit of another token.
C16_LateFlagStaysPending ==
    [][\A c \in Contexts : IterFlaggedWrites(c) =>
          /\ \A b \in RaisedSinceRead(c) : b \in ir'
          /\ ir' = ir \ ctx[c].interrupts
          /\ ctx[c].interrupts \subseteq ctx[c].tok.mask
          /\ \A b \in RegBits \ ctx[c].tok.mask : (b \in ir') = (b \in ir)]_vars

\* main has read a pending flag in iter_flagged, and before its write the
\* peripheral has raised another flag of its token.
C16_Witness ==
    /\ ctx["main"].op = "iter_flagged"
    /\ ctx["main"].pc = "write"
    /\ ctx["main"].interrupts # {}
    /\ (ctx["main"].tok.mask \cap ir) \ ctx["main"].interrupts # {}

-----------------------------------------------------------------------------
(* Properties of the reserved positions                                    *)

\* No token owns a reserved position, no value interrupt_flags returned has
\* one set, and no value about to be written to IR has one set.
ReservedClearInTokensAndFlags ==
    \A c \in Contexts :
        /\ Owned(c) \cap ReservedPositions = {}
        /\ ctx[c].interrupts \cap ReservedPositions = {}
        /\ ctx[c].pc = "write" => ctx[c].arg \cap ReservedPositions = {}

\* C20 as stated: no live token owns a reserved position, every value
\* returned by interrupt_flags has them clear, and every value written to
\* IR, ILS and IE has them zero, whatever the hardware returns on a read.
C20_ReservedWrittenZero ==
    /\ ReservedClearInTokensAndFlags
    /\ \A c \in Contexts :
           ctx[c].pc \in {"ils_write", "ie_write"} =>
               ctx[c].w \cap ReservedPositions = {}

\* C20: no live token owns a reserved position, every value returned by
\* interrupt_flags has them clear, every value written to IR has them zero,
\* and every value written to ILS and IE has on the reserved positions the
\* bits the read of that register returned: zero whenever the hardware
\* reads them as zero.
C20_ReservedWrittenAsRead ==
    /\ ReservedClearInTokensAndFlags
    /\ \A c \in Contexts :
           ctx[c].pc \in {"ils_write", "ie_write"} =>
               ctx[c].w \cap ReservedPositions = ctx[c].r \cap ReservedPositions

\* The caller is about to write IE in disable, having read a reserved
\* position as one, after a read of IR that returned an owned flag.
C20_Witness ==
    /\ ctx[Caller].op = "disable"
    /\ ctx[Caller].pc = "ie_write"
    /\ ctx[Caller].r \cap ReservedPositions # {}
    /\ ctx[Caller].tok.mask # {}
    /\ ctx[Caller].interrupts # {}

=============================================================================
